---- MODULE Spec2Model ----
(***************************************************************************)
(* Model of the stonehenge-flash agent: the Supervisor (Agent), the Worker *)
(* Handle (ProcessManager), the Control Socket (WebSocketServer) and the   *)
(* enrichment loop (HotTokensTracker), as concurrent goroutines.           *)
(*                                                                         *)
(* Every Go function is written as a "program": a sequence of instructions *)
(* in source order.  A goroutine is a thread with a program name (op) and  *)
(* an instruction pointer (ip); one action per instruction kind executes   *)
(* the instruction the thread is at.  Instructions that touch only the     *)
(* thread's locals or fields guarded by the exclusive lock it holds        *)
(* (setflag, setRunning, checkRunning, go, respond, unlock) commute with   *)
(* every step of every other goroutine; they are executed in the same step *)
(* as the instruction before them (Settle).  A section under the read lock *)
(* is one step.  A call of a function that begins with a.mu.Lock() is one  *)
(* step with the grant of the lock (Enter): a caller that waits for the    *)
(* lock has done nothing another goroutine can see.  A message sent on the *)
(* broadcast channel while a broadcastMessages goroutine waits in its      *)
(* receive is handed over in the step of the send.                         *)
(*                                                                         *)
(* Two specifications share the actions.  Spec is the agent from main's    *)
(* Start on, with callers of the exported operations and a session of the  *)
(* control socket.  SpecCycle is the agent started and stopped repeatedly  *)
(* by main, with a worker that can crash.                                  *)
(***************************************************************************)
EXTENDS Integers, Sequences, FiniteSets, TLC

\* ---------------------------------------------------------------- bounds
\* calls of Agent.Start and Agent.Stop by main
MaxMainCalls == 3
\* calls of the other Agent operations and commands of sessions
MaxCalls == 2
\* crashes of the worker
MaxCrashes == 1
\* firings of the ticker of an enrichment loop
MaxTicks == 1
\* capacity of the broadcast channel in the model (100 in the source)
BroadcastCap == 2
\* tokens FetchHotTokens keeps in the model (10 in the source)
RankCap == 2
\* tokens of a ranking response (the page size is 40 in the source)
MaxRanked == 3
\* accumulators a tracker gathers over its enrichment cycles
MaxInfos == 3

\* ---------------------------------------------------- program constants
\* make(chan struct{}, 1)
StatusCap == 1
\* survivors HotTokensTracker.UpdateConfig adopts; ProcessDelay of a new route
AdoptCap == 2
DefaultDelay == 1000

\* ---------------------------------------------------------------- threads
NoThread == <<"none", 0>>
Main == <<"main", 0>>
Operators == {<<"op", 1>>}
Sessions == {<<"s", 1>>}
\* Agent.Start spawns one tracker and one monitor; k successful starts need
\* 2k-1 calls of Start/Stop
NumLoops == (MaxMainCalls + 1) \div 2
Trackers == {<<"t", i>> : i \in 1..NumLoops}
Monitors == {<<"m", i>> : i \in 1..NumLoops}
Background == Trackers \cup Monitors
\* connections whose client keeps a transcript of the frames it sent and
\* received; the client of a connection of Sessions keeps none
Listeners == {<<"k", 1>>, <<"k", 2>>}
Connections == Sessions \cup Listeners
Threads == {Main} \cup Operators \cup Connections \cup Background

\* ------------------------------------------------------------ config values
Mints == {"a", "b"}
\* the file loaded by NewAgent
InitialConfig == [mints |-> <<>>, rpc |-> "r0"]
NoConfig == [mints |-> <<>>, rpc |-> "none"]
\* the Config a config/update command carries
PayloadConfig == [mints |-> <<>>, rpc |-> "r1"]

\* ------------------------------------------------------------- commands
\* Command: type, action and the raw value ("": none, "ok": JSON of the
\* shape the handler expects, "bad": anything else)
Envelope(t, a, v) == [type |-> t, action |-> a, value |-> v]
NoCommand == Envelope("", "", "")
\* survivors of one enrichment cycle (at most two are kept; one suffices here)
SurvivorLists == {<<m>> : m \in Mints}

VARIABLES
    muWriter,         \* Agent.mu: the thread holding the exclusive lock
    agentIsRunning,   \* Agent.isRunning
    manuallyStopped,  \* Agent.manuallyStopped
    cancelled,        \* Agent.ctx is cancelled
    statusChecks,     \* Agent.statusChecks: number of buffered triggers
    mevConfigPath,    \* Agent.mevConfigPath
    mevConfig,        \* Agent.mevConfig: a pointer (index into heap)
    heap,             \* the Config objects pointers refer to
    disk,             \* content of config.toml
    procIsRunning,    \* ProcessManager.isRunning
    procs,            \* the processes spawned so far; cmd is the last one
    execPresent,      \* the executable file exists
    broadcast,        \* WebSocketServer.broadcast
    broadcasters,     \* number of broadcastMessages goroutines
    serverUp,         \* the HTTP server accepts connections
    clients,          \* WebSocketServer.clients
    verifyToken,      \* agentConfig.Wechat.VerifyToken
    conns,            \* the transport of each connection
    wire,             \* transcript of each connection of Listeners
    apiResp,          \* history: the ranking response as FetchHotTokens
                      \* received it, until the classification loop starts
    HotTokens,        \* HotTokensTracker.HotTokens
    TokenPoolsInfos,  \* HotTokensTracker.TokenPoolsInfos
    validTokenInfos,  \* HotTokensTracker.UpdateConfig: its local, as left
    fetchAt,          \* FetchHotTokens: 0 at the ticker, else the
                      \* accumulator the classification loop is at
    lastUpdate,       \* how HotTokensTracker.UpdateConfig returned last
    th,               \* goroutines: program, position and locals
    used,             \* environment events so far, by class
    stopRequested     \* history: the last call on the worker handle was Stop

\* what a step of a thread changes besides the fields its instruction names
ctlVars == <<muWriter, agentIsRunning, manuallyStopped, th, wire>>
trackVars == <<apiResp, HotTokens, TokenPoolsInfos, validTokenInfos, fetchAt,
               lastUpdate>>
chanVars == <<cancelled, statusChecks, mevConfigPath, trackVars>>
cfgVars == <<mevConfig, heap, disk>>
procVars == <<procIsRunning, procs, execPresent>>
wsVars == <<broadcast, broadcasters, serverUp, clients, verifyToken, conns>>
vars == <<ctlVars, chanVars, cfgVars, procVars, wsVars, used, stopRequested>>

\* ---------------------------------------------------------------- programs
\* f: the Go function the instruction belongs to; i: instruction kind;
\* a: argument; x: where an error goes (0: ignored, -1: return through the
\* deferred Unlock, k: instruction k); n: next instruction (0: the following)
Ins(f, i, a, x, n) == [f |-> f, i |-> i, a |-> a, x |-> x, n |-> n]

\* a Start that returns the error of the worker and leaves the socket up
AgentStartLeavesSocket ==
    << Ins("Start", "lock", "", 0, 0),
       Ins("Start", "checkRunning", FALSE, -1, 0),
       Ins("Start", "wsStart", "", 0, 0),
       Ins("Start", "procStart", "", -1, 0),
       Ins("Start", "goTracker", "", 0, 0),
       Ins("Start", "goMonitor", "", 0, 0),
       Ins("Start", "setRunning", TRUE, 0, 9),
       Ins("Start", "wsStop", "", 0, 0),
       Ins("Start", "unlock", "", 0, 0) >>

AgentStart ==
    << Ins("Start", "lock", "", 0, 0),
       Ins("Start", "checkRunning", FALSE, -1, 0),
       Ins("Start", "wsStart", "", 0, 0),
       Ins("Start", "procStart", "", 8, 0),
       Ins("Start", "goTracker", "", 0, 0),
       Ins("Start", "goMonitor", "", 0, 0),
       Ins("Start", "setRunning", TRUE, 0, 9),
       Ins("Start", "wsStop", "", 0, 0),
       Ins("Start", "unlock", "", 0, 0) >>

AgentStop ==
    << Ins("Stop", "lock", "", 0, 0),
       Ins("Stop", "checkRunning", TRUE, -1, 0),
       Ins("Stop", "setflag", TRUE, 0, 0),
       Ins("Stop", "cancel", "", 0, 0),
       Ins("Stop", "procStop", "", 0, 0),
       Ins("Stop", "wsStop", "", 0, 0),
       Ins("Stop", "setRunning", FALSE, 0, 0),
       Ins("Stop", "unlock", "", 0, 0) >>

StopMEVBot ==
    << Ins("StopMEVBot", "lock", "", 0, 0),
       Ins("StopMEVBot", "setflag", TRUE, 0, 0),
       Ins("StopMEVBot", "procStop", "", -1, 0),
       Ins("StopMEVBot", "bcast", "manually stopped", 0, 0),
       Ins("StopMEVBot", "unlock", "", 0, 0) >>

StartMEVBot ==
    << Ins("StartMEVBot", "lock", "", 0, 0),
       Ins("StartMEVBot", "setflag", FALSE, 0, 0),
       Ins("StartMEVBot", "procStart", "", -1, 0),
       Ins("StartMEVBot", "bcast", "manually started", 0, 0),
       Ins("StartMEVBot", "unlock", "", 0, 0) >>

\* a RestartMEVBot that leaves manuallyStopped set
RestartMEVBotKeepsFlag ==
    << Ins("RestartMEVBot", "lock", "", 0, 0),
       Ins("RestartMEVBot", "procStop", "", -1, 0),
       Ins("RestartMEVBot", "setflag", TRUE, 0, 0),
       Ins("RestartMEVBot", "procStart", "", -1, 0),
       Ins("RestartMEVBot", "bcast", "restarted", 0, 0),
       Ins("RestartMEVBot", "unlock", "", 0, 0) >>

RestartMEVBot ==
    << Ins("RestartMEVBot", "lock", "", 0, 0),
       Ins("RestartMEVBot", "procStop", "", -1, 0),
       Ins("RestartMEVBot", "setflag", TRUE, 0, 0),
       Ins("RestartMEVBot", "procStart", "", -1, 0),
       Ins("RestartMEVBot", "setflag", FALSE, 0, 0),
       Ins("RestartMEVBot", "bcast", "restarted", 0, 0),
       Ins("RestartMEVBot", "unlock", "", 0, 0) >>

\* an UpdateConfig that stops the worker before it saves the configuration
UpdateConfigStopsFirst ==
    << Ins("UpdateConfig", "lock", "", 0, 0),
       Ins("UpdateConfig", "procStop", "", 0, 0),
       Ins("UpdateConfig", "save", "mevConfigPath", -1, 0),
       Ins("UpdateConfig", "store", "pointer", 0, 0),
       Ins("UpdateConfig", "procStart", "", -1, 0),
       Ins("UpdateConfig", "bcast", "config updated and restarted", 0, 0),
       Ins("UpdateConfig", "unlock", "", 0, 0) >>

UpdateConfig ==
    << Ins("UpdateConfig", "lock", "", 0, 0),
       Ins("UpdateConfig", "save", "mevConfigPath", -1, 0),
       Ins("UpdateConfig", "store", "pointer", 0, 0),
       Ins("UpdateConfig", "procStop", "", 0, 0),
       Ins("UpdateConfig", "procStart", "", -1, 0),
       Ins("UpdateConfig", "bcast", "config updated and restarted", 0, 0),
       Ins("UpdateConfig", "unlock", "", 0, 0) >>

\* a monitorStatus that calls Start again when Start failed
monitorStatusRetries ==
    << Ins("monitorStatus", "select", "", 0, 0),
       Ins("monitorStatus", "lock", "", 0, 0),
       Ins("monitorStatus", "procStart", "", 3, 0),
       Ins("monitorStatus", "bcastOutcome", "", 0, 0),
       Ins("monitorStatus", "unlock", "", 0, 1),
       Ins("monitorStatus", "readStatus", "", 0, 0),
       Ins("monitorStatus", "bcastStatus", "", 0, 1) >>

\* select: case <-a.ctx.Done() returns; case <-ticker.C evaluates the
\* condition under the read lock and goes on to instruction 2 when it holds;
\* case <-a.statusChecks goes on to instruction 6
monitorStatus ==
    << Ins("monitorStatus", "select", "", 0, 0),
       Ins("monitorStatus", "lock", "", 0, 0),
       Ins("monitorStatus", "procStart", "", 4, 0),
       Ins("monitorStatus", "bcastOutcome", "", 0, 0),
       Ins("monitorStatus", "unlock", "", 0, 1),
       Ins("monitorStatus", "readStatus", "", 0, 0),
       Ins("monitorStatus", "bcastStatus", "", 0, 1) >>

\* a StartTracking that goes back to the ticker when the fetch failed
StartTrackingSkips ==
    << Ins("FetchHotTokens", "fetch", "", 11, 0),
       Ins("HotTokensTracker.UpdateConfig", "save", "config.toml", 4, 0),
       Ins("HotTokensTracker.UpdateConfig", "store", "inplace", 0, 0) >>
    \o RestartMEVBot
    \o << Ins("StartTracking", "waitTicker", "", 0, 1) >>

\* StartTracking with FetchHotTokens, HotTokensTracker.UpdateConfig and
\* Agent.RestartMEVBot inlined
StartTracking ==
    << Ins("FetchHotTokens", "fetch", "", 4, 0),
       Ins("HotTokensTracker.UpdateConfig", "save", "config.toml", 4, 0),
       Ins("HotTokensTracker.UpdateConfig", "store", "inplace", 0, 0) >>
    \o RestartMEVBot
    \o << Ins("StartTracking", "waitTicker", "", 0, 1) >>

\* handleCommand, one program per (type, action)
cmdStatus ==
    << Ins("handleCommand", "sendStatus", "", 0, 0),
       Ins("handleCommand", "respond", "status", 0, 0) >>

cmdRestart ==
    RestartMEVBot \o << Ins("handleCommand", "respond", "restart", 0, 0) >>

cmdGet ==
    << Ins("handleCommand", "copy", "get", 0, 0),
       Ins("handleCommand", "respond", "get", 0, 0) >>

cmdUpdateRPC ==
    << Ins("handleUpdateRPC", "unmarshal", "rpc", 10, 0),
       Ins("handleUpdateRPC", "copy", "rpc", 0, 0) >>
    \o UpdateConfig
    \o << Ins("handleCommand", "respond", "updateRPC", 0, 0) >>

cmdUpdate ==
    << Ins("handleConfigUpdate", "unmarshal", "config", 9, 0) >>
    \o UpdateConfig
    \o << Ins("handleCommand", "respond", "update", 0, 0) >>

\* a type of the switch with an action that has no case
cmdNoAction ==
    << Ins("handleCommand", "respond", "none", 0, 0) >>

\* default: of the switch on the type
cmdUnknownType ==
    << Ins("handleCommand", "respond", "unknown", 0, 0) >>

MainOps == {"Start", "Stop"}
OperatorOps == {"StopMEVBot", "StartMEVBot", "RestartMEVBot", "UpdateConfig"}
Commands == {"cmdStatus", "cmdRestart", "cmdGet", "cmdUpdateRPC"}

\* the program of each function a thread can run
Programs ==
    [Start |-> AgentStart, Stop |-> AgentStop, StopMEVBot |-> StopMEVBot,
     StartMEVBot |-> StartMEVBot, RestartMEVBot |-> RestartMEVBot,
     UpdateConfig |-> UpdateConfig, monitorStatus |-> monitorStatus,
     StartTracking |-> StartTracking, cmdStatus |-> cmdStatus,
     cmdRestart |-> cmdRestart, cmdGet |-> cmdGet,
     cmdUpdateRPC |-> cmdUpdateRPC, cmdUpdate |-> cmdUpdate,
     cmdNoAction |-> cmdNoAction, cmdUnknownType |-> cmdUnknownType]

\* the switch of handleCommand on cmd.Type and cmd.Action
Dispatch(e) ==
    CASE e.type = "config" /\ e.action = "get" -> "cmdGet"
      [] e.type = "config" /\ e.action = "update" -> "cmdUpdate"
      [] e.type = "bot" /\ e.action = "status" -> "cmdStatus"
      [] e.type = "bot" /\ e.action = "restart" -> "cmdRestart"
      [] e.type = "bot" /\ e.action = "updateRPC" -> "cmdUpdateRPC"
      [] e.type \in {"config", "bot"} -> "cmdNoAction"
      [] OTHER -> "cmdUnknownType"

\* what the client of a connection of Listeners sends
ListenerEnvelopes ==
    { Envelope("bot", "status", ""), Envelope("bot", "restart", ""),
      Envelope("config", "get", ""), Envelope("bot", "updateRPC", "ok"),
      Envelope("bot", "updateRPC", "bad"), Envelope("config", "update", "ok"),
      Envelope("config", "update", "bad"), Envelope("bot", "dance", ""),
      Envelope("chat", "get", "") }

\* the client of a connection of Sessions sends well-formed commands of
\* Commands only
Sent(s) ==
    IF s \in Listeners THEN ListenerEnvelopes
    ELSE {e \in ListenerEnvelopes :
             Dispatch(e) \in Commands /\ e.value # "bad"}

\* the response of handleCommand: response["action"] and the other keys set
Response(e, keys) == [type |-> "response", action |-> e.action, keys |-> keys]

\* the keys set by the case that ends in the respond instruction `label`,
\* err being the error of the handler the case called
ResponseKeys(label, err) ==
    CASE label = "get" -> {"data"}
      [] label = "status" -> {"message"}
      [] label = "none" -> {}
      [] label = "unknown" -> {"error"}
      [] OTHER -> IF err THEN {"error"} ELSE {"message"}

Notification(m) == [type |-> "notification", message |-> m]
Welcome == [type |-> "system", message |-> "connected"]

\* conn.WriteJSON: the frame reaches the client when the transport is open
WriteOk(k) == conns[k] = "open"
Deliver(w, k, frame) ==
    IF k \in Listeners /\ WriteOk(k) THEN [w EXCEPT ![k] = Append(@, frame)]
    ELSE w

Prog(o) == Programs[o]

\* ------------------------------------------------------------- interpreter
Live(t) == t.op \notin {"idle", "unborn", "done"}
CurOf(t) == Prog(t.op)[t.ip]
Running(c) == Live(th[c])
Cur(c) == CurOf(th[c])
At(c, k) == Running(c) /\ Cur(c).i = k

\* the deferred a.mu.Unlock() of the function the thread is in
NextUnlock(t) ==
    LET P == Prog(t.op)
        after == {j \in (t.ip + 1)..Len(P) : P[j].i = "unlock"}
    IN  CHOOSE j \in after : \A k \in after : j <= k

NextIp(t) == IF CurOf(t).n > 0 THEN CurOf(t).n ELSE t.ip + 1

ErrIp(t) ==
    IF CurOf(t).x = -1 THEN NextUnlock(t)
    ELSE IF CurOf(t).x > 0 THEN CurOf(t).x
    ELSE NextIp(t)

\* the thread moves to instruction `to`; past the end of its program the
\* function has returned
Moved(t, to, e) ==
    IF to > Len(Prog(t.op))
    THEN [t EXCEPT !.op = "idle", !.ip = 0, !.err = e, !.cfg = NoConfig,
                   !.msg = "", !.cmd = NoCommand]
    ELSE [t EXCEPT !.ip = to, !.err = e]

Ok(t) == Moved(t, NextIp(t), t.err)

\* an instruction that can fail: an ignored error (x = 0) is only logged
Result(t, failed) ==
    Moved(t, IF failed THEN ErrIp(t) ELSE NextIp(t), failed /\ CurOf(t).x # 0)

Spawned(o, h) ==
    [op |-> o, ip |-> 1, err |-> FALSE, cfg |-> NoConfig, msg |-> "", h |-> h,
     cmd |-> NoCommand]

Unborn(T, S) == {t \in S : T[t].op = "unborn"}
FirstUnborn(T, S) ==
    CHOOSE t \in Unborn(T, S) : \A u \in Unborn(T, S) : t[2] <= u[2]

Quiet == {"setflag", "setRunning", "checkRunning", "goTracker", "goMonitor",
          "unmarshal", "respond", "unlock"}

\* one instruction of Quiet, executed by thread c in S = [th, flag, running,
\* mu, wire] (threads, manuallyStopped, isRunning, Agent.mu, transcripts)
Quietly(S, c) ==
    LET t == S.th[c]
        ins == CurOf(t)
    IN  CASE ins.i = "setflag" ->
               \* a.manuallyStopped = true / false
               [S EXCEPT !.flag = ins.a, !.th[c] = Ok(t)]
          [] ins.i = "setRunning" ->
               \* a.isRunning = true / false
               [S EXCEPT !.running = ins.a, !.th[c] = Ok(t)]
          [] ins.i = "checkRunning" ->
               \* if a.isRunning { return nil } / if !a.isRunning { return nil }
               [S EXCEPT !.th[c] =
                   Moved(t, IF S.running = ins.a THEN NextIp(t)
                            ELSE NextUnlock(t), FALSE)]
          [] ins.i = "goTracker" ->
               \* NewHotTokensTracker(a.mevConfig, ...); go StartTracking()
               [S EXCEPT !.th[c] = Ok(t),
                         !.th[FirstUnborn(S.th, Trackers)] =
                             Spawned("StartTracking", mevConfig)]
          [] ins.i = "goMonitor" ->
               \* go a.monitorStatus()
               [S EXCEPT !.th[c] = Ok(t),
                         !.th[FirstUnborn(S.th, Monitors)] =
                             Spawned("monitorStatus", 0)]
          [] ins.i = "unmarshal" ->
               \* json.Unmarshal(cmd.Value, &v): an error is returned
               [S EXCEPT !.th[c] =
                   IF t.cmd.value = "bad" THEN Result(t, TRUE)
                   ELSE IF ins.a = "config"
                        THEN [Ok(t) EXCEPT !.cfg = PayloadConfig]
                        ELSE Ok(t)]
          [] ins.i = "respond" ->
               \* conn.WriteJSON(response), its error ignored
               [S EXCEPT !.th[c] = Ok(t),
                         !.wire = Deliver(S.wire, c,
                                    Response(t.cmd,
                                             ResponseKeys(ins.a, t.err)))]
          [] ins.i = "unlock" ->
               \* defer a.mu.Unlock(); a loop only logs the error returned
               [S EXCEPT !.mu = NoThread,
                         !.th[c] = IF c \in Background
                                   THEN [Ok(t) EXCEPT !.err = FALSE]
                                   ELSE Ok(t)]

\* thread c executes instructions of Quiet until it is at another one
RECURSIVE Settle(_, _)
Settle(SS, c) ==
    UNION { IF Live(S.th[c]) /\ CurOf(S.th[c]).i \in Quiet
            THEN Settle({Quietly(S, c)}, c)
            ELSE {S} : S \in SS }

\* thread c has executed its instruction and is now t, Agent.mu is held by
\* mu, the transcripts are w
ControlFrom(c, t, mu, w) ==
    \E S \in Settle({[th |-> [th EXCEPT ![c] = t], flag |-> manuallyStopped,
                       running |-> agentIsRunning, mu |-> mu, wire |-> w]},
                     c) :
        /\ th' = S.th
        /\ manuallyStopped' = S.flag
        /\ agentIsRunning' = S.running
        /\ muWriter' = S.mu
        /\ wire' = S.wire

Control(c, t, mu) == ControlFrom(c, t, mu, wire)

Quota == [main |-> MaxMainCalls, call |-> MaxCalls, crash |-> MaxCrashes,
          tick |-> MaxTicks]
Budget(k) == used[k] < Quota[k]
Spent(k) == used' = [used EXCEPT ![k] = @ + 1]

\* ------------------------------------------------ sync.RWMutex (Agent.mu)
CanLockAlways == TRUE
\* a.mu.Lock() returns when nobody holds the lock
CanLock == muWriter = NoThread
\* a.mu.RLock() returns when no writer holds the lock
CanRLock == muWriter = NoThread

Lock(c) ==
    /\ At(c, "lock")
    /\ CanLock
    /\ Control(c, [Ok(th[c]) EXCEPT !.err = FALSE], c)
    /\ UNCHANGED <<chanVars, cfgVars, procVars, wsVars, used, stopRequested>>

\* ------------------------------------------------------- ProcessManager
NewProcess == [st |-> "alive", sig |-> FALSE]
cmd == Len(procs)
\* exec.Command and cmd.Start: p.cmd is the new process; processes that
\* were waited for and are no longer p.cmd are forgotten
Spawn == SelectSeq(procs, LAMBDA p : p.st # "reaped") \o <<NewProcess>>

\* ProcessManager.Start: it returns nil when running, an error when the
\* executable is missing, and spawns otherwise
StartFails == ~procIsRunning /\ ~execPresent
\* a Start that does not look at isRunning
StartSpawnsAnyway == execPresent
StartSpawns == ~procIsRunning /\ execPresent

\* ProcessManager.Stop: Signal and Kill both fail once Wait has returned
StopFails == procIsRunning /\ cmd > 0 /\ procs[cmd].st # "alive"
StopSignals == procIsRunning /\ cmd > 0 /\ procs[cmd].st = "alive"

ProcStart(c) ==
    /\ At(c, "procStart")
    /\ procs' = IF StartSpawns THEN Spawn ELSE procs
    /\ procIsRunning' = (procIsRunning \/ StartSpawns)
    /\ Control(c, Result(th[c], StartFails), muWriter)
    /\ stopRequested' = FALSE
    /\ UNCHANGED <<chanVars, cfgVars, execPresent, wsVars, used>>

\* a Stop that waits for the process and clears isRunning itself
ProcStopWaits(c) ==
    /\ At(c, "procStop")
    /\ procs' = IF StopSignals THEN [procs EXCEPT ![cmd].sig = TRUE]
                ELSE procs
    /\ procIsRunning' = FALSE
    /\ Control(c, Result(th[c], StopFails), muWriter)
    /\ stopRequested' = TRUE
    /\ UNCHANGED <<chanVars, cfgVars, execPresent, wsVars, used>>

ProcStop(c) ==
    /\ At(c, "procStop")
    /\ procs' = IF StopSignals THEN [procs EXCEPT ![cmd].sig = TRUE]
                ELSE procs
    /\ Control(c, Result(th[c], StopFails), muWriter)
    /\ stopRequested' = TRUE
    /\ UNCHANGED <<chanVars, cfgVars, procIsRunning, execPresent, wsVars,
                   used>>

\* the worker exits by itself: cmd.Wait returns in the exit observer
Crash ==
    /\ Budget("crash")
    /\ \E p \in 1..Len(procs) :
          /\ procs[p].st = "alive"
          /\ ~procs[p].sig
          /\ procs' = [procs EXCEPT ![p].st = "waited"]
    /\ Spent("crash")
    /\ UNCHANGED <<ctlVars, chanVars, cfgVars, procIsRunning, execPresent,
                   wsVars, stopRequested>>

\* the worker exits on the termination signal
ExitOnSignal ==
    /\ \E p \in 1..Len(procs) :
          /\ procs[p].st = "alive"
          /\ procs[p].sig
          /\ procs' = [procs EXCEPT ![p].st = "waited"]
    /\ UNCHANGED <<ctlVars, chanVars, cfgVars, procIsRunning, execPresent,
                   wsVars, used, stopRequested>>

\* the executable file is removed, or installed again
Replace ==
    /\ execPresent' = ~execPresent
    /\ UNCHANGED <<ctlVars, chanVars, cfgVars, procIsRunning, procs, wsVars,
                   used, stopRequested>>

\* the goroutine of ProcessManager.Start after cmd.Wait returned
ExitObserver ==
    /\ \E p \in 1..Len(procs) :
          /\ procs[p].st = "waited"
          /\ procs' = [procs EXCEPT ![p].st = "reaped"]
    /\ procIsRunning' = FALSE
    /\ UNCHANGED <<ctlVars, chanVars, cfgVars, execPresent, wsVars, used,
                   stopRequested>>

\* ------------------------------------------------------------------ Agent
\* a.cancelFunc()
Cancel(c) ==
    /\ At(c, "cancel")
    /\ cancelled' = TRUE
    /\ Control(c, Ok(th[c]), muWriter)
    /\ UNCHANGED <<statusChecks, mevConfigPath, trackVars, cfgVars, procVars,
                   wsVars, used, stopRequested>>

\* the select of monitorStatus: Go picks any ready case
Select(c) ==
    /\ At(c, "select")
    /\ \/ \* case <-a.ctx.Done(): return
          /\ cancelled
          /\ th' = [th EXCEPT ![c].op = "done", ![c].ip = 0]
          /\ UNCHANGED statusChecks
       \/ \* case <-ticker.C: RLock; the condition; RUnlock
          /\ CanRLock
          /\ ~procIsRunning /\ ~manuallyStopped
          /\ th' = [th EXCEPT ![c].ip = 2]
          /\ UNCHANGED statusChecks
       \/ \* case <-a.statusChecks
          /\ statusChecks > 0
          /\ statusChecks' = statusChecks - 1
          /\ th' = [th EXCEPT ![c].ip = 6]
    /\ UNCHANGED <<muWriter, agentIsRunning, manuallyStopped, wire,
                   cancelled, mevConfigPath, trackVars, cfgVars, procVars,
                   wsVars, used, stopRequested>>

StatusText ==
    IF procIsRunning THEN "running"
    ELSE IF manuallyStopped THEN "stopped (manual)"
    ELSE "stopped (unexpected)"

\* RLock; the status string; RUnlock
ReadStatus(c) ==
    /\ At(c, "readStatus")
    /\ CanRLock
    /\ Control(c, [Ok(th[c]) EXCEPT !.msg = StatusText], muWriter)
    /\ UNCHANGED <<chanVars, cfgVars, procVars, wsVars, used, stopRequested>>

\* ------------------------------------------------------- WebSocketServer
WsStart(c) ==
    /\ At(c, "wsStart")
    /\ broadcasters' = broadcasters + 1
    /\ serverUp' = TRUE
    /\ Control(c, Ok(th[c]), muWriter)
    /\ UNCHANGED <<chanVars, cfgVars, procVars, broadcast, clients,
                   verifyToken, conns, used, stopRequested>>

WsStop(c) ==
    /\ At(c, "wsStop")
    /\ serverUp' = FALSE
    /\ Control(c, Ok(th[c]), muWriter)
    /\ UNCHANGED <<chanVars, cfgVars, procVars, broadcast, broadcasters,
                   clients, verifyToken, conns, used, stopRequested>>

Message(c) ==
    CASE Cur(c).i = "bcast" -> Cur(c).a
      [] Cur(c).i = "bcastOutcome" ->
            IF th[c].err THEN "restart failed" ELSE "auto restarted"
      [] Cur(c).i = "bcastStatus" -> th[c].msg

\* the fan-out of a message changes nothing: every registered connection
\* has an open transport and a client that keeps no transcript
Unobserved == \A k \in clients : k \notin Listeners /\ WriteOk(k)

\* ws.broadcast <- message
BroadcastMessage(c) ==
    /\ Running(c)
    /\ Cur(c).i \in {"bcast", "bcastOutcome", "bcastStatus"}
    /\ IF broadcasters > 0 /\ broadcast = << >> /\ Unobserved
       THEN \* a broadcastMessages goroutine waits in the receive
            broadcast' = broadcast
       ELSE /\ Len(broadcast) < BroadcastCap
            /\ broadcast' = Append(broadcast, Message(c))
    /\ Control(c, [Ok(th[c]) EXCEPT !.msg = "", !.err = FALSE], muWriter)
    /\ UNCHANGED <<chanVars, cfgVars, procVars, broadcasters, serverUp,
                   clients, verifyToken, conns, used, stopRequested>>

\* a fan-out that stops at the first write that fails
ReceiversUntilFailure ==
    IF \A k \in clients : WriteOk(k) THEN clients ELSE {}
\* the clients the fan-out writes the notification to
Receivers == {k \in clients : WriteOk(k)}

\* a fan-out that closes a client whose write fails and keeps it in the set
broadcastMessagesKeeps ==
    /\ broadcasters > 0
    /\ broadcast # << >>
    /\ broadcast' = Tail(broadcast)
    /\ conns' = [k \in Connections |->
                    IF k \in clients /\ ~WriteOk(k) THEN "closed"
                    ELSE conns[k]]
    /\ wire' = [k \in Listeners |->
                   IF k \in Receivers
                   THEN Append(wire[k], Notification(Head(broadcast)))
                   ELSE wire[k]]
    /\ UNCHANGED <<muWriter, agentIsRunning, manuallyStopped, th, chanVars,
                   cfgVars, procVars, broadcasters, serverUp, clients,
                   verifyToken, used, stopRequested>>

\* a fan-out that takes a.mu.RLock() for each message
broadcastMessagesUnderLock ==
    /\ CanRLock
    /\ broadcasters > 0
    /\ broadcast # << >>
    /\ broadcast' = Tail(broadcast)
    /\ clients' = {k \in clients : WriteOk(k)}
    /\ conns' = [k \in Connections |->
                    IF k \in clients /\ ~WriteOk(k) THEN "closed"
                    ELSE conns[k]]
    /\ wire' = [k \in Listeners |->
                   IF k \in Receivers
                   THEN Append(wire[k], Notification(Head(broadcast)))
                   ELSE wire[k]]
    /\ UNCHANGED <<muWriter, agentIsRunning, manuallyStopped, th, chanVars,
                   cfgVars, procVars, broadcasters, serverUp, verifyToken,
                   used, stopRequested>>

\* one round of the loop of broadcastMessages: under ws.mu, the message is
\* written to every client; a client whose write fails is closed and deleted
broadcastMessages ==
    /\ broadcasters > 0
    /\ broadcast # << >>
    /\ broadcast' = Tail(broadcast)
    /\ clients' = {k \in clients : WriteOk(k)}
    /\ conns' = [k \in Connections |->
                    IF k \in clients /\ ~WriteOk(k) THEN "closed"
                    ELSE conns[k]]
    /\ wire' = [k \in Listeners |->
                   IF k \in Receivers
                   THEN Append(wire[k], Notification(Head(broadcast)))
                   ELSE wire[k]]
    /\ UNCHANGED <<muWriter, agentIsRunning, manuallyStopped, th, chanVars,
                   cfgVars, procVars, broadcasters, serverUp, verifyToken,
                   used, stopRequested>>

\* a send on statusChecks returns when the buffer has room
CanSendStatus == statusChecks < StatusCap

\* ws.agent.statusChecks <- struct{}{}
SendStatus(c) ==
    /\ At(c, "sendStatus")
    /\ CanSendStatus
    /\ statusChecks' = statusChecks + 1
    /\ Control(c, Ok(th[c]), muWriter)
    /\ UNCHANGED <<cancelled, mevConfigPath, trackVars, cfgVars, procVars,
                   wsVars, used, stopRequested>>

\* ------------------------------------------------------------------ Config
\* the pointer a thread reads the configuration through
Pointer(c) == IF c \in Trackers THEN th[c].h ELSE mevConfig

Patched(c, base) ==
    CASE Cur(c).i = "fetch" ->
            {[base EXCEPT !.mints = sv] : sv \in SurvivorLists}
      [] Cur(c).a = "rpc" -> {[base EXCEPT !.rpc = "r1"]}
      [] OTHER -> {base}

\* Config.Copy of the live configuration, then the patch on the copy
Copy(c) ==
    /\ At(c, "copy")
    /\ \E new \in Patched(c, heap[Pointer(c)]) :
          Control(c, [Ok(th[c]) EXCEPT !.cfg = new], muWriter)
    /\ UNCHANGED <<chanVars, cfgVars, procVars, wsVars, used, stopRequested>>

\* os.WriteFile fails on the empty path; any write can fail
SaveOutcomes(path) == IF path = "" THEN {FALSE} ELSE {TRUE, FALSE}

SavePath(c) ==
    IF Cur(c).a = "mevConfigPath" THEN mevConfigPath ELSE Cur(c).a

\* Config.SaveToFile
SaveToFile(c) ==
    /\ At(c, "save")
    /\ \E ok \in SaveOutcomes(SavePath(c)) :
          /\ disk' = IF ok /\ SavePath(c) = "config.toml" THEN th[c].cfg
                     ELSE disk
          /\ Control(c, Result(th[c], ~ok), muWriter)
    /\ UNCHANGED <<chanVars, mevConfig, heap, procVars, wsVars, used,
                   stopRequested>>

\* a.mevConfig = updatedConfig replaces the pointer;
\* *h.MevConfig = *newMevConfig overwrites the object the pointer refers to
Store(c) ==
    /\ At(c, "store")
    /\ IF Cur(c).a = "pointer"
       THEN /\ heap' = Append(heap, th[c].cfg)
            /\ mevConfig' = Len(heap) + 1
       ELSE /\ heap' = [heap EXCEPT ![th[c].h] = th[c].cfg]
            /\ UNCHANGED mevConfig
    /\ Control(c, [Ok(th[c]) EXCEPT !.cfg = NoConfig], muWriter)
    /\ UNCHANGED <<chanVars, disk, procVars, wsVars, used, stopRequested>>

\* -------------------------------------------------------- HotTokensTracker
\* FetchHotTokens and the merge of HotTokensTracker.UpdateConfig: the
\* ranking source fails or no candidate survives, or the survivors are
\* merged into a new Config built from the live one
Fetch(c) ==
    /\ At(c, "fetch")
    /\ \/ Control(c, Result(th[c], TRUE), muWriter)
       \/ \E new \in Patched(c, heap[Pointer(c)]) :
             Control(c, [Ok(th[c]) EXCEPT !.cfg = new], muWriter)
    /\ UNCHANGED <<chanVars, cfgVars, procVars, wsVars, used, stopRequested>>

\* for range ticker.C
WaitTicker(c) ==
    /\ At(c, "waitTicker")
    /\ Budget("tick")
    /\ Spent("tick")
    /\ Control(c, Ok(th[c]), muWriter)
    /\ UNCHANGED <<chanVars, cfgVars, procVars, wsVars, stopRequested>>

\* ------------------------------------------------------------ environment
Called(o, cfg) ==
    [op |-> o, ip |-> 1, err |-> FALSE, cfg |-> cfg, msg |-> "", h |-> 0,
     cmd |-> NoCommand]

\* thread c calls o: a function that begins with a.mu.Lock() is entered
\* when the lock is granted
Enter(c, o, cfg) ==
    IF Prog(o)[1].i = "lock"
    THEN CanLock /\ Control(c, [Called(o, cfg) EXCEPT !.ip = 2], c)
    ELSE Control(c, Called(o, cfg), muWriter)

\* main calls Agent.Start or Agent.Stop
MainCall(o) ==
    /\ Budget("main")
    /\ th[Main].op = "idle"
    /\ Enter(Main, o, NoConfig)
    /\ Spent("main")
    /\ UNCHANGED <<chanVars, cfgVars, procVars, wsVars, stopRequested>>

\* main calls Agent.Start first
Boot ==
    /\ used["main"] = 0
    /\ MainCall("Start")

\* a caller of the Agent API
OperatorCall(c) ==
    /\ Budget("call")
    /\ th[c].op = "idle"
    /\ \E o \in OperatorOps : Enter(c, o, NoConfig)
    /\ Spent("call")
    /\ UNCHANGED <<chanVars, cfgVars, procVars, wsVars, stopRequested>>

\* the request of a client: the token of the query and whether the
\* request can be upgraded to a WebSocket
Hello(tok, up) == [type |-> "hello", token |-> tok, upgrade |-> up]
Handshakes(s) ==
    IF s \in Listeners
    THEN {Hello("secret", TRUE), Hello("wrong", TRUE), Hello("secret", FALSE)}
    ELSE {Hello(verifyToken, TRUE)}

\* a handshake that accepts every token
AuthorizedAlways(tok) == TRUE
\* !(expectedToken != "" && token != expectedToken)
Authorized(tok) == verifyToken = "" \/ tok = verifyToken

\* what the client of connection k has sent, added to its transcript
Sends(k, frame) ==
    IF k \in Listeners THEN [wire EXCEPT ![k] = Append(@, frame)] ELSE wire

\* handleConnections: the token is verified, the request upgraded, the
\* connection registered and welcomed, and handleMessages started
Connect(s) ==
    /\ th[s].op = "unborn"
    /\ serverUp
    /\ \E hello \in Handshakes(s) :
          IF ~Authorized(hello.token)
          THEN /\ conns' = [conns EXCEPT ![s] = "unauthorized"]
               /\ th' = [th EXCEPT ![s].op = "done"]
               /\ wire' = Sends(s, hello)
               /\ UNCHANGED clients
          ELSE IF ~hello.upgrade
          THEN /\ conns' = [conns EXCEPT ![s] = "refused"]
               /\ th' = [th EXCEPT ![s].op = "done"]
               /\ wire' = Sends(s, hello)
               /\ UNCHANGED clients
          ELSE /\ conns' = [conns EXCEPT ![s] = "open"]
               /\ clients' = clients \cup {s}
               /\ th' = [th EXCEPT ![s].op = "idle"]
               /\ wire' = IF s \in Listeners
                          THEN [wire EXCEPT ![s] = @ \o <<hello, Welcome>>]
                          ELSE wire
    /\ UNCHANGED <<muWriter, agentIsRunning, manuallyStopped, chanVars,
                   cfgVars, procVars, broadcast, broadcasters,
                   serverUp, verifyToken, used, stopRequested>>

\* handleMessages reads a command and calls handleCommand
Command(s) ==
    /\ Budget("call")
    /\ th[s].op = "idle"
    /\ conns[s] = "open"
    /\ \E e \in Sent(s) :
          LET o == Dispatch(e)
              t == [Called(o, NoConfig) EXCEPT !.cmd = e]
          IN  IF Prog(o)[1].i = "lock"
              THEN CanLock /\ ControlFrom(s, [t EXCEPT !.ip = 2], s,
                                          Sends(s, e))
              ELSE ControlFrom(s, t, muWriter, Sends(s, e))
    /\ Spent("call")
    /\ UNCHANGED <<chanVars, cfgVars, procVars, wsVars, stopRequested>>

\* what a client sends that is no Command
Malformed == [type |-> "malformed"]

\* handleMessages: conn.ReadJSON returns an error (the transport is broken
\* or closed, or the message is no Command); the loop is left, the
\* connection deleted from the clients and closed
ReadFails(s) ==
    /\ th[s].op = "idle"
    /\ \/ conns[s] # "open" /\ UNCHANGED wire
       \/ conns[s] = "open" /\ s \in Listeners /\ wire' = Sends(s, Malformed)
    /\ clients' = clients \ {s}
    /\ conns' = [conns EXCEPT ![s] = "closed"]
    /\ th' = [th EXCEPT ![s].op = "done"]
    /\ UNCHANGED <<muWriter, agentIsRunning, manuallyStopped, chanVars,
                   cfgVars, procVars, broadcast, broadcasters,
                   serverUp, verifyToken, used, stopRequested>>

\* the client of connection k goes away: reads and writes fail from now on
Break(k) ==
    /\ conns[k] = "open"
    /\ conns' = [conns EXCEPT ![k] = "broken"]
    /\ UNCHANGED <<ctlVars, chanVars, cfgVars, procVars, broadcast,
                   broadcasters, serverUp, clients, verifyToken, used,
                   stopRequested>>

\* ---------------------------------------------------------- specification
\* NewAgent, tok being the verification token of the agent's configuration
\* ------------------------------------------------------ enrichment cycle
\* HotToken: the fields FetchHotTokens reads
HotToken(addr, vol) == [TargetToken |-> addr, Volume15m |-> vol]

\* the pairs a ranking response can list; "C" is an address without "pump"
Tokens == {HotToken("Apump", 1), HotToken("Bpump", 2), HotToken("C", 1)}

Lists(S, n) == UNION {[1..k -> S] : k \in 0..n}

\* APIResponse: Status and Data.Data
APIResponse(st, data) == [Status |-> st, Data |-> data]
NoResponse == APIResponse(0, << >>)
Responses ==
    {APIResponse(1, d) : d \in Lists(Tokens, MaxRanked)} \cup {NoResponse}

\* sort.Slice(x, func(i, j) bool { return x[i].Volume15m > x[j].Volume15m }):
\* a permutation in which no element is less than the one before it; the
\* sort is not stable, elements of equal volume come out in any order
SortSlice(x) ==
    LET n == Len(x)
        perms == {p \in [1..n -> 1..n] : \A i, j \in 1..n : i # j => p[i] # p[j]}
        out(p) == [i \in 1..n |-> x[p[i]]]
    IN  {out(p) : p \in {q \in perms :
            \A i \in 1..(n - 1) :
               ~(out(q)[i + 1].Volume15m > out(q)[i].Volume15m)}}

\* x[:n] when len(x) > n
Cut(x, n) == IF Len(x) > n THEN SubSeq(x, 1, n) ELSE x

\* the accumulator FetchHotTokens creates for a ranked token
TokenPoolsInfo(token) ==
    [TokenAddress |-> token.TargetToken, Volume15m |-> token.Volume15m,
     PumpPools |-> << >>, MeteoraLists |-> << >>, RaydiumPools |-> << >>,
     RaydiumCPPools |-> << >>]

\* FetchHotTokens up to the classification loop, called by StartTracking
\* at once and then at each firing of the ticker: the request fails or the
\* response is invalid and the function returns, or the response is sorted,
\* cut and stored, and one accumulator per kept token is appended
FetchHotTokens ==
    /\ fetchAt = 0
    /\ \E resp \in Responses :
          IF resp.Status # 1 \/ Len(resp.Data) = 0
          THEN UNCHANGED <<trackVars, used>>
          ELSE \E tokens \in SortSlice(resp.Data) :
                  LET kept == Cut(tokens, RankCap)
                  IN  /\ Len(TokenPoolsInfos) + Len(kept) <= MaxInfos
                      /\ IF Len(TokenPoolsInfos) = 0 THEN UNCHANGED used
                         ELSE Budget("tick") /\ Spent("tick")
                      /\ apiResp' = resp
                      /\ HotTokens' = kept
                      /\ TokenPoolsInfos' =
                            TokenPoolsInfos \o
                            [i \in 1..Len(kept) |-> TokenPoolsInfo(kept[i])]
                      /\ fetchAt' = 1
                      /\ UNCHANGED <<validTokenInfos, lastUpdate>>
    /\ UNCHANGED <<ctlVars, cancelled, statusChecks, mevConfigPath, cfgVars,
                   procVars, wsVars, stopRequested>>

\* a pool of a SolscanPoolResponse and the label of the account deciding its
\* category
Pool(id, label) == [PoolID |-> id, label |-> label]

\* SolscanPoolResponse.Data; the empty one stands for every failed request
PoolResponses ==
    { << >>,
      << Pool("p1", "pump") >>,
      << Pool("r1", "raydium"), Pool("c1", "raydium clmm") >> }

\* the accumulator field a label is classified into
Category ==
    [PumpPools |-> "pump", MeteoraLists |-> "meteora dlmm",
     RaydiumPools |-> "raydium", RaydiumCPPools |-> "raydium clmm"]

Found(data, cat) ==
    LET ids == [i \in 1..Len(data) |-> data[i].PoolID]
        hit(i) == data[i].label = Category[cat]
        RECURSIVE from(_)
        from(i) == IF i > Len(data) THEN << >>
                   ELSE (IF hit(i) THEN <<ids[i]>> ELSE << >>) \o from(i + 1)
    IN  from(1)

\* FetchPoolsForToken on the accumulator the loop is at: the pools found are
\* appended to its lists
FetchPoolsForToken ==
    /\ fetchAt \in 1..Len(TokenPoolsInfos)
    /\ \E data \in PoolResponses :
          TokenPoolsInfos' =
             [TokenPoolsInfos EXCEPT ![fetchAt] =
                [f \in DOMAIN @ |->
                   IF f \in DOMAIN Category THEN @[f] \o Found(data, f)
                   ELSE @[f]]]
    /\ fetchAt' = fetchAt + 1
    /\ apiResp' = NoResponse
    /\ UNCHANGED <<HotTokens, validTokenInfos, lastUpdate>>
    /\ UNCHANGED <<ctlVars, cancelled, statusChecks, mevConfigPath, cfgVars,
                   procVars, wsVars, used, stopRequested>>

\* strings.Contains(info.TokenAddress, "pump")
ContainsPump(addr) == addr \in {"Apump", "Bpump"}

PoolTypeCount(info) ==
    Cardinality({f \in DOMAIN Category : Len(info[f]) > 0})

\* a filter that is content with one category
EligibleWithOne(info) ==
    ContainsPump(info.TokenAddress) /\ PoolTypeCount(info) >= 1

\* the filter of HotTokensTracker.UpdateConfig
Eligible(info) ==
    ContainsPump(info.TokenAddress) /\ PoolTypeCount(info) >= 2

Filter(infos) ==
    LET RECURSIVE from(_)
        from(i) == IF i > Len(infos) THEN << >>
                   ELSE (IF Eligible(infos[i]) THEN <<infos[i]>> ELSE << >>)
                        \o from(i + 1)
    IN  from(1)

\* MintConfig
MintConfig(mint, pump, raydium, raydiumCP, meteora, lookup, delay) ==
    [Mint |-> mint, PumpPoolList |-> pump, RaydiumPoolList |-> raydium,
     RaydiumCPPoolList |-> raydiumCP, MeteoraPoolList |-> meteora,
     LookupTableAccounts |-> lookup, ProcessDelay |-> delay]

\* the MintConfig field an accumulator field is merged into
RouteField ==
    [PumpPools |-> "PumpPoolList", MeteoraLists |-> "MeteoraPoolList",
     RaydiumPools |-> "RaydiumPoolList",
     RaydiumCPPools |-> "RaydiumCPPoolList"]

\* Config.Copy of the mint list: the JSON encoding, decoded again
CopyList(list) ==
    [i \in 1..Len(list) |->
       MintConfig(list[i].Mint, list[i].PumpPoolList, list[i].RaydiumPoolList,
                  list[i].RaydiumCPPoolList, list[i].MeteoraPoolList,
                  list[i].LookupTableAccounts, list[i].ProcessDelay)]

\* the route of the address in the list, the first one; 0 when there is none
ExistingConfig(list, addr) ==
    IF \E i \in 1..Len(list) : list[i].Mint = addr
    THEN CHOOSE i \in 1..Len(list) :
            /\ list[i].Mint = addr
            /\ \A j \in 1..(i - 1) : list[j].Mint # addr
    ELSE 0

\* a merge that overwrites every category
MergedAlways(list, info) ==
    LET e == ExistingConfig(list, info.TokenAddress)
        base == IF e # 0 THEN list[e]
                ELSE MintConfig(info.TokenAddress, << >>, << >>, << >>, << >>,
                                << >>, DefaultDelay)
    IN  [f \in DOMAIN base |->
           IF \E c \in DOMAIN RouteField : RouteField[c] = f
           THEN info[CHOOSE c \in DOMAIN RouteField : RouteField[c] = f]
           ELSE base[f]]

\* the mintConfig built for one survivor
Merged(list, info) ==
    LET e == ExistingConfig(list, info.TokenAddress)
        base == IF e # 0 THEN list[e]
                ELSE MintConfig(info.TokenAddress, << >>, << >>, << >>, << >>,
                                << >>, DefaultDelay)
    IN  [f \in DOMAIN base |->
           IF \E c \in DOMAIN RouteField :
                 RouteField[c] = f /\ Len(info[c]) > 0
           THEN info[CHOOSE c \in DOMAIN RouteField : RouteField[c] = f]
           ELSE base[f]]

\* HotTokensTracker.UpdateConfig, called when the classification loop is
\* through: sort, filter, cut, merge into a copy, save, store in place
TrackerUpdateConfig ==
    /\ fetchAt = Len(TokenPoolsInfos) + 1
    /\ fetchAt' = 0
    /\ UNCHANGED <<apiResp, HotTokens>>
    /\ \E sorted \in SortSlice(TokenPoolsInfos) :
          LET valid == Cut(Filter(sorted), AdoptCap)
              old == CopyList(heap[mevConfig].mints)
              new == [heap[mevConfig] EXCEPT !.mints =
                         [i \in 1..Len(valid) |-> Merged(old, valid[i])]]
          IN  /\ TokenPoolsInfos' = sorted
              /\ validTokenInfos' = valid
              /\ IF Len(valid) = 0
                 THEN /\ lastUpdate' = "no valid token"
                      /\ UNCHANGED <<heap, disk>>
                 ELSE \E ok \in SaveOutcomes("config.toml") :
                         IF ok
                         THEN /\ lastUpdate' = "stored"
                              /\ disk' = new
                              /\ heap' = [heap EXCEPT ![mevConfig] = new]
                         ELSE /\ lastUpdate' = "save failed"
                              /\ UNCHANGED <<heap, disk>>
    /\ UNCHANGED <<ctlVars, cancelled, statusChecks, mevConfigPath, mevConfig,
                   procVars, wsVars, used, stopRequested>>

\* the agent and its tracker after NewAgent loaded the configuration cfg
ConstructedWith(tok, cfg) ==
    /\ muWriter = NoThread
    /\ agentIsRunning = FALSE
    /\ manuallyStopped = FALSE
    /\ cancelled = FALSE
    /\ statusChecks = 0
    /\ mevConfigPath = ""
    /\ mevConfig = 1
    /\ heap = <<cfg>>
    /\ disk = cfg
    /\ apiResp = NoResponse
    /\ HotTokens = << >>
    /\ TokenPoolsInfos = << >>
    /\ validTokenInfos = << >>
    /\ fetchAt = 0
    /\ lastUpdate = "none"
    /\ procIsRunning = FALSE
    /\ procs = << >>
    /\ execPresent \in BOOLEAN
    /\ broadcast = << >>
    /\ broadcasters = 0
    /\ serverUp = FALSE
    /\ clients = {}
    /\ verifyToken = tok
    /\ conns = [k \in Connections |-> "none"]
    /\ wire = [k \in Listeners |-> << >>]
    /\ th = [c \in Threads |->
               [op |-> IF c = Main \/ c \in Operators THEN "idle"
                       ELSE "unborn",
                ip |-> 0, err |-> FALSE, cfg |-> NoConfig, msg |-> "",
                h |-> 0, cmd |-> NoCommand]]
    /\ used = [k \in DOMAIN Quota |-> 0]
    /\ stopRequested = FALSE

Constructed(tok) == ConstructedWith(tok, InitialConfig)

\* the agent without a verification token
Init == Constructed("")

\* the steps of a thread that every specification has
Core(c) ==
    \/ Lock(c)
    \/ ProcStart(c) \/ ProcStop(c)
    \/ Select(c)
    \/ WsStart(c) \/ WsStop(c) \/ BroadcastMessage(c)
    \/ SaveToFile(c) \/ Store(c)
    \/ Fetch(c) \/ WaitTicker(c)

\* the agent between main's Start and main's Stop, with callers of the API
\* and sessions of the control socket
Serve ==
    \/ \E c \in Threads :
          Core(c) \/ Copy(c) \/ ReadStatus(c) \/ SendStatus(c)
    \/ Boot
    \/ \E c \in Operators : OperatorCall(c)
    \/ \E s \in Sessions : Connect(s) \/ Command(s)
    \/ ExitOnSignal \/ ExitObserver
    \/ broadcastMessages

Spec == Init /\ [][Serve]_vars

\* the agent started and stopped again and again by main, with a worker
\* that can crash, nobody else calling the agent
Cycle ==
    \/ \E c \in Threads : Core(c) \/ Cancel(c)
    \/ \E o \in MainOps : MainCall(o)
    \/ Crash \/ ExitOnSignal \/ ExitObserver

SpecCycle == Init /\ [][Cycle]_vars

\* the control socket with clients that keep transcripts, send any command
\* and go away, while both loops of the agent wait for their next tick
InitSocket == \E tok \in {"", "secret"} : Constructed(tok)

Socket ==
    \/ \E c \in {Main} \cup Listeners :
          \/ Lock(c)
          \/ ProcStart(c) \/ ProcStop(c)
          \/ WsStart(c) \/ WsStop(c) \/ BroadcastMessage(c)
          \/ SaveToFile(c) \/ Copy(c) \/ SendStatus(c)
    \/ Boot
    \/ \E k \in Listeners :
          Connect(k) \/ Command(k) \/ ReadFails(k) \/ Break(k)
    \/ ExitOnSignal \/ ExitObserver
    \/ broadcastMessages

SpecSocket == InitSocket /\ [][Socket]_vars

\* the agent started by main, its health-check loop, a worker that can
\* crash, an executable that can vanish, and a session whose peer can go
\* away
Health ==
    \/ \E c \in {Main} \cup Monitors :
          \/ Lock(c) \/ ProcStart(c) \/ Select(c)
          \/ WsStart(c) \/ WsStop(c) \/ BroadcastMessage(c)
    \/ Boot
    \/ \E s \in Sessions : Connect(s) \/ ReadFails(s) \/ Break(s)
    \/ Crash \/ ExitObserver \/ Replace
    \/ broadcastMessages

SpecHealth == Init /\ [][Health]_vars

\* a session's bot/restart command, or the enrichment loop after it stored
\* a configuration: ws.agent.RestartMEVBot()
RestartCall(c) ==
    /\ Budget("call")
    /\ th[c].op = "idle"
    /\ Enter(c, "RestartMEVBot", NoConfig)
    /\ Spent("call")
    /\ UNCHANGED <<chanVars, cfgVars, procVars, wsVars, stopRequested>>

\* the steps of the goroutine c of a running agent
Step(c) ==
    \/ Lock(c) \/ ProcStart(c) \/ ProcStop(c) \/ Select(c)
    \/ WsStart(c) \/ WsStop(c) \/ BroadcastMessage(c)

\* the agent started by main, its health-check loop, callers that restart
\* the worker, a worker that exits on the termination signal and an
\* executable that can vanish
Restarting ==
    \/ \E c \in {Main} \cup Operators \cup Monitors : Step(c)
    \/ Boot
    \/ \E c \in Operators : RestartCall(c)
    \/ ExitOnSignal \/ ExitObserver \/ Replace
    \/ broadcastMessages

\* the Go scheduler runs every goroutine that can take a step, main calls
\* Start, and a signalled worker exits
Scheduling ==
    /\ \A c \in {Main} \cup Operators \cup Monitors : WF_vars(Step(c))
    /\ WF_vars(Boot)
    /\ WF_vars(ExitOnSignal)
    /\ WF_vars(ExitObserver)
    /\ WF_vars(broadcastMessages)

SpecRestart == Init /\ [][Restarting]_vars /\ Scheduling

\* the steps of the goroutine c of an agent that serves a session
Work(c) ==
    \/ Step(c)
    \/ ReadStatus(c) \/ SendStatus(c)
    \/ SaveToFile(c) \/ Copy(c)

\* the client that only listens to the notifications
Audience == {<<"k", 1>>}

\* the agent started by main, its health-check loop, a session that sends
\* commands, a client that listens and can go away, and a worker that can
\* crash
Notify ==
    \/ \E c \in {Main} \cup Monitors \cup Sessions : Work(c)
    \/ Boot
    \/ \E s \in Sessions : Connect(s) \/ Command(s)
    \/ \E k \in Audience : Connect(k) \/ ReadFails(k) \/ Break(k)
    \/ Crash \/ ExitOnSignal \/ ExitObserver
    \/ broadcastMessages

\* the Go scheduler runs every goroutine that can take a step: main, the
\* health-check loop, the handler of the session and the fan-out
Delivery ==
    /\ \A c \in {Main} \cup Monitors \cup Sessions : WF_vars(Work(c))
    /\ WF_vars(broadcastMessages)

SpecNotify == Init /\ [][Notify]_vars /\ Delivery

\* the mint lists config.toml can hold when the agent is constructed
LoadedLists ==
    { << >>,
      << MintConfig("Bpump", <<"p0">>, << >>, << >>, <<"m0">>, <<"lut">>, 5) >> }

InitEnrich ==
    \E list \in LoadedLists :
       ConstructedWith("", [InitialConfig EXCEPT !.mints = list])

\* the enrichment cycles of one tracker, nothing else touching the
\* configuration
Enrich == FetchHotTokens \/ FetchPoolsForToken \/ TrackerUpdateConfig

SpecEnrich == InitEnrich /\ [][Enrich]_vars

\* ------------------------------------------------------------------ claims
\* the functions that stop or (re)start the worker on request
Exclusive == {"StopMEVBot", "StartMEVBot", "RestartMEVBot", "UpdateConfig"}
Deliberate == Exclusive \cup {"Stop"}

\* thread c is between a.mu.Lock() and the deferred a.mu.Unlock() of one of
\* the four operations
InCritical(c) == Running(c) /\ Cur(c).f \in Exclusive /\ Cur(c).i # "lock"

\* thread c executes the instruction of kind k it is at
Does(c, k) == At(c, k) /\ th'[c] # th[c]

\* this step spawns a worker process
Spawns == ~procIsRunning /\ procIsRunning'

\* C1: at most one of StopMEVBot, StartMEVBot, RestartMEVBot and
\* UpdateConfig is inside its critical section at any time, and the thread
\* inside is the holder of the exclusive lock.
C1_MutualExclusion ==
    \A c \in Threads :
        InCritical(c) =>
            /\ muWriter = c
            /\ \A d \in Threads \ {c} : ~InCritical(d)

\* one operation is inside its critical section while another thread waits
\* in a.mu.Lock() of another of the four operations
C1_Witness ==
    \E c \in Threads : \E d \in Threads \ {c} :
        /\ InCritical(c)
        /\ At(d, "lock")
        /\ Cur(d).f \in Exclusive

\* C2: the health-check loop never starts the worker while manuallyStopped
\* is true, that is from a StopMEVBot until a StartMEVBot or RestartMEVBot
\* has cleared the flag, also when its tick read the condition before the
\* StopMEVBot took the lock.
C2_NoAutoStartWhileStopped ==
    [][\A m \in Monitors :
          Does(m, "procStart") /\ Spawns => ~manuallyStopped]_vars

\* C3: in Stop, StopMEVBot, StartMEVBot, RestartMEVBot and UpdateConfig the
\* flag manuallyStopped is true when the worker's Stop is invoked and false
\* when the worker's Start is invoked.
C3_FlagBeforeLifecycleCall ==
    [][\A c \in Threads :
          /\ Does(c, "procStop") /\ Cur(c).f \in Deliberate
                => manuallyStopped
          /\ Does(c, "procStart") /\ Cur(c).f \in Deliberate
                => ~manuallyStopped]_vars

\* C4: when no operation is in progress, the worker is not running and
\* manuallyStopped is true, then the last thing asked of the worker was to
\* stop: the flag is never true for a worker that was (re)started and
\* crashed or failed to start.
C4_FlagMeansRequested ==
    (muWriter = NoThread /\ ~procIsRunning /\ manuallyStopped)
        => stopRequested

\* C5: once Agent.Stop has returned (the context cancelled, isRunning false)
\* no background loop starts a worker process.
C5_NoStartAfterStop ==
    [][\A c \in Background :
          cancelled /\ ~agentIsRunning /\ Does(c, "procStart")
              => ~Spawns]_vars

\* C6: whenever the agent is running, the worker is not running,
\* manuallyStopped is false and the executable is present, a health-check
\* loop is there to invoke the start: without one no scheduling of the
\* health-check loop starts the worker.
C6_HealthCheckAlive ==
    (agentIsRunning /\ ~procIsRunning /\ ~manuallyStopped /\ execPresent)
        => \E m \in Monitors : Running(m)

\* C7: the bot/status command never blocks its session: a session that is
\* at the send on statusChecks can always complete it.
C7_StatusNeverBlocks ==
    \A s \in Sessions : At(s, "sendStatus") => CanSendStatus

\* C9: when no adoption is between its save and its store, the persisted
\* configuration equals the in-memory configuration.
C9_DiskEqualsMemory ==
    (\A c \in Threads : ~At(c, "store")) => disk = heap[mevConfig]

\* C10: no Config object is written in place, and the configuration of the
\* agent changes only by replacing the pointer under the exclusive lock.
C10_NeverInPlace ==
    [][/\ \A i \in 1..Len(heap) : heap'[i] = heap[i]
       /\ mevConfig' # mevConfig => muWriter # NoThread]_vars

\* the first instruction of function f in program P
CallOf(P, f) ==
    CHOOSE i \in 1..Len(P) : P[i].f = f /\ \A j \in 1..(i - 1) : P[j].f # f

\* C11: every enrichment cycle ends with exactly one call of RestartMEVBot:
\* from the fetch, the save or the store the loop moves forward and never
\* past the call, from the call it moves forward through RestartMEVBot to
\* the ticker, and only the ticker leads back to the fetch.
C11_OneRestartPerCycle ==
    [][\A t \in Trackers :
          LET call == CallOf(StartTracking, "RestartMEVBot")
              wait == CallOf(StartTracking, "StartTracking")
              ip == th[t].ip
              to == th'[t].ip
          IN  (th[t].op = "StartTracking" /\ th'[t].op = "StartTracking"
                  /\ to # ip)
              => /\ ip < call => (ip < to /\ to <= call)
                 /\ (call <= ip /\ ip < wait) => (ip < to /\ to <= wait)
                 /\ ip = wait => to = 1]_vars

\* a periodic cycle failed at the ranking source or at the save and the
\* loop is at its call of RestartMEVBot
C11_Witness ==
    \E t \in Trackers :
        /\ At(t, "lock")
        /\ Cur(t).f = "RestartMEVBot"
        /\ th[t].err
        /\ used["tick"] > 0

\* the exit observers that have not finished: one per process that was
\* spawned and whose exit was not yet recorded
Observers == {p \in 1..Len(procs) : procs[p].st \in {"alive", "waited"}}

C17_OnlyObserverClearsRunning ==
    [][/\ \A c \in Threads :
             Does(c, "procStop") =>
                 /\ procIsRunning' = procIsRunning
                 /\ Len(procs') = Len(procs)
                 /\ \A p \in 1..Len(procs) : procs'[p].st = procs[p].st
                 /\ ~procIsRunning => (procs' = procs /\ ~th'[c].err)
       /\ (procIsRunning /\ ~procIsRunning') =>
             /\ th' = th
             /\ \E p \in 1..Len(procs) :
                   procs[p].st = "waited" /\ procs'[p].st = "reaped"]_vars

\* StopMEVBot is past its Stop on a running handle: the process has the
\* signal, it has not been waited for, and the handle is still running
C17_Witness ==
    \E c \in Threads :
        /\ At(c, "bcast")
        /\ Cur(c).f = "StopMEVBot"
        /\ procIsRunning
        /\ cmd > 0
        /\ procs[cmd].sig
        /\ procs[cmd].st = "alive"

\* the commands a client has sent and the responses it has received
IsCommand(f) == "value" \in DOMAIN f
IsResponse(f) == f.type = "response"
IsNotification(f) == f.type = "notification"

\* C15: with a verification token configured, a connection that presents
\* another token is not upgraded, is never in the clients and receives
\* nothing, neither the welcome nor a notification.
C15_UnauthorizedGetsNothing ==
    \A k \in Listeners :
        (wire[k] # << >> /\ verifyToken # ""
            /\ wire[k][1].token # verifyToken)
        => /\ k \notin clients
           /\ conns[k] = "unauthorized"
           /\ Len(wire[k]) = 1

\* a connection was rejected for its token and another one, registered,
\* has received a notification
C15_Witness ==
    \E k \in Listeners : \E j \in Listeners \ {k} :
        /\ conns[k] = "unauthorized"
        /\ j \in clients
        /\ \E i \in 1..Len(wire[j]) : IsNotification(wire[j][i])

\* C18: the i-th response a client receives echoes the action of the i-th
\* command it sent and carries a success key (data or message) or the
\* error key, and not both.
C18_ResponseEnvelope ==
    \A k \in Listeners :
        LET cs == SelectSeq(wire[k], IsCommand)
            rs == SelectSeq(wire[k], IsResponse)
        IN  /\ Len(rs) <= Len(cs)
            /\ \A i \in 1..Len(rs) :
                  /\ rs[i].action = cs[i].action
                  /\ rs[i].keys # {}
                  /\ ~("error" \in rs[i].keys
                        /\ rs[i].keys \cap {"data", "message"} # {})

\* C19: a fan-out writes the notification to every client with an open
\* transport and keeps it registered, whatever happens to the others; a
\* client whose write fails is deleted and its transport closed.
C19_BroadcastIsolation ==
    [][Len(broadcast') < Len(broadcast) =>
          \A k \in clients :
              IF conns[k] = "open"
              THEN /\ k \in clients'
                   /\ conns'[k] = "open"
                   /\ k \in Listeners =>
                         wire'[k] = Append(wire[k],
                                           Notification(Head(broadcast)))
              ELSE /\ k \notin clients'
                   /\ conns'[k] = "closed"]_vars

\* a fan-out has closed a connection whose handleMessages still waits in
\* its read, and another client has the notification as its last frame
C19_Witness ==
    \E k \in Listeners : \E j \in Listeners \ {k} :
        /\ conns[k] = "closed"
        /\ th[k].op = "idle"
        /\ j \in clients
        /\ wire[j] # << >>
        /\ IsNotification(wire[j][Len(wire[j])])

\* C20: a message that is no Command, or a command whose value cannot be
\* parsed, leaves the session registered and its transport open, and the
\* configuration and the worker as they were.
C20_MalformedKeepsSession ==
    [][\A k \in Listeners :
          (/\ Len(wire'[k]) > Len(wire[k])
           /\ LET f == wire'[k][Len(wire[k]) + 1]
              IN  f = Malformed \/ (IsCommand(f) /\ f.value = "bad"))
          => /\ k \in clients'
             /\ conns'[k] = "open"
             /\ UNCHANGED <<cfgVars, procVars>>]_vars

\* the stable sort by descending volume: an element goes behind every
\* earlier element that is not smaller
StableSort(x) ==
    LET RECURSIVE sort(_)
        sort(n) ==
           IF n = 0 THEN << >>
           ELSE LET done == sort(n - 1)
                    k == Cardinality({i \in 1..Len(done) :
                            done[i].Volume15m >= x[n].Volume15m})
                IN  SubSeq(done, 1, k) \o <<x[n]>>
                    \o SubSeq(done, k + 1, Len(done))
    IN  sort(Len(x))

\* C12: after the rank step on a response with success status and a
\* non-empty list, the tokens kept are the first RankCap (all when there are
\* fewer) of the response in descending volume, tokens of equal volume in
\* the order of the response.
C12_KeptIsStableTop ==
    fetchAt = 1 =>
       /\ apiResp.Status = 1 /\ Len(apiResp.Data) > 0
       /\ HotTokens = Cut(StableSort(apiResp.Data), RankCap)

\* marker in the address and two different non-empty pool categories
Qualifies(info) ==
    /\ ContainsPump(info.TokenAddress)
    /\ \E c, d \in {"PumpPools", "MeteoraLists", "RaydiumPools",
                    "RaydiumCPPools"} :
          c # d /\ info[c] # << >> /\ info[d] # << >>

Qualifying == {i \in 1..Len(TokenPoolsInfos) : Qualifies(TokenPoolsInfos[i])}

\* C13: when HotTokensTracker.UpdateConfig has returned, the survivors it
\* adopted all carry the marker and have two non-empty categories, they are
\* AdoptCap of the qualifying accumulators (all of them when there are
\* fewer), and no qualifying accumulator left out has a higher volume than
\* an adopted one.
C13_SurvivorsAreTopEligible ==
    (fetchAt = 0 /\ lastUpdate # "none") =>
       /\ \A i \in 1..Len(validTokenInfos) : Qualifies(validTokenInfos[i])
       /\ Len(validTokenInfos) <= AdoptCap
       /\ \E K \in SUBSET Qualifying :
             /\ Cardinality(K) = Len(validTokenInfos)
             /\ Cardinality(Qualifying) > Cardinality(K)
                   => Cardinality(K) = AdoptCap
             /\ \A k \in K :
                   Cardinality({j \in K :
                      TokenPoolsInfos[j] = TokenPoolsInfos[k]})
                   = Cardinality({i \in 1..Len(validTokenInfos) :
                      validTokenInfos[i] = TokenPoolsInfos[k]})
             /\ \A k \in K : \A j \in Qualifying \ K :
                   TokenPoolsInfos[j].Volume15m <= TokenPoolsInfos[k].Volume15m

\* three accumulators qualify, one of lower volume than the others, and two
\* were adopted
C13_Witness ==
    /\ fetchAt = 0
    /\ lastUpdate = "stored"
    /\ Cardinality(Qualifying) = 3
    /\ Len(validTokenInfos) = 2
    /\ \E j \in Qualifying :
          TokenPoolsInfos[j].Volume15m < validTokenInfos[2].Volume15m

\* C14: a step of HotTokensTracker.UpdateConfig that stores a mint list
\* stores one route per survivor, in their order and with their addresses;
\* a survivor whose address had a route keeps that route's lookup tables
\* and delay, and each pool list is the survivor's when the survivor has
\* pools of the category and the previous one otherwise; a survivor without
\* a route gets no lookup tables, the default delay and its own pool lists.
C14_MergeKeepsAndOverwrites ==
    [][(fetchAt # 0 /\ fetchAt' = 0 /\ lastUpdate' = "stored") =>
         LET old == heap[mevConfig].mints
             new == heap'[mevConfig'].mints
             v == validTokenInfos'
             Prev(a) == {j \in 1..Len(old) :
                           /\ old[j].Mint = a
                           /\ \A h \in 1..(j - 1) : old[h].Mint # a}
             Routed(r) == <<r.PumpPoolList, r.MeteoraPoolList,
                           r.RaydiumPoolList, r.RaydiumCPPoolList>>
             Pools(i) == <<v[i].PumpPools, v[i].MeteoraLists,
                           v[i].RaydiumPools, v[i].RaydiumCPPools>>
         IN  /\ Len(new) = Len(v)
             /\ \A i \in 1..Len(v) :
                   /\ new[i].Mint = v[i].TokenAddress
                   /\ \A j \in Prev(v[i].TokenAddress) :
                         /\ new[i].LookupTableAccounts
                               = old[j].LookupTableAccounts
                         /\ new[i].ProcessDelay = old[j].ProcessDelay
                         /\ \A c \in 1..4 :
                               Routed(new[i])[c] =
                                  IF Pools(i)[c] # << >> THEN Pools(i)[c]
                                  ELSE Routed(old[j])[c]
                   /\ Prev(v[i].TokenAddress) = {} =>
                         /\ new[i].LookupTableAccounts = << >>
                         /\ new[i].ProcessDelay = DefaultDelay
                         /\ Routed(new[i]) = Pools(i)]_vars

\* a stored mint list with the route of a new address next to a route that
\* kept its lookup tables, its delay and the two pool lists the cycle found
\* nothing for, and took over the two it found pools for
C14_Witness ==
    /\ fetchAt = 0
    /\ lastUpdate = "stored"
    /\ \E i, j \in 1..Len(heap[mevConfig].mints) :
          LET kept == heap[mevConfig].mints[i]
              made == heap[mevConfig].mints[j]
          IN  /\ kept = MintConfig("Bpump", <<"p0">>, <<"r1">>, <<"c1">>,
                                   <<"m0">>, <<"lut">>, 5)
              /\ made.Mint = "Apump"
              /\ made.LookupTableAccounts = << >>
              /\ made.ProcessDelay = DefaultDelay
              /\ validTokenInfos[i].PumpPools = << >>

\* C21: when the classification loop is through and the filter is due, the
\* accumulators are those of the tokens kept in this cycle, one per token
\* and in their order, and no pool list holds a pool twice, as it would
\* with pools of an earlier classification.
C21_AccumulatorsAreFresh ==
    (fetchAt # 0 /\ fetchAt = Len(TokenPoolsInfos) + 1) =>
       /\ Len(TokenPoolsInfos) = Len(HotTokens)
       /\ Len(TokenPoolsInfos) <= RankCap
       /\ \A i \in 1..Len(TokenPoolsInfos) :
             /\ i <= Len(HotTokens) =>
                   /\ TokenPoolsInfos[i].TokenAddress
                         = HotTokens[i].TargetToken
                   /\ TokenPoolsInfos[i].Volume15m = HotTokens[i].Volume15m
             /\ \A f \in DOMAIN Category :
                   \A m, n \in 1..Len(TokenPoolsInfos[i][f]) :
                      m # n => TokenPoolsInfos[i][f][m]
                               # TokenPoolsInfos[i][f][n]

\* the worker processes that have not exited
Alive == {p \in 1..Len(procs) : procs[p].st = "alive"}

\* C22: no step leads to two worker processes alive, and the Start that the
\* health-check loop calls under the exclusive lock when the worker is
\* running by then spawns nothing and returns no error.
C22_OneWorkerAlive ==
    [][/\ Cardinality(Alive') <= 1
       /\ \A c \in Monitors :
             (At(c, "procStart") /\ procIsRunning /\ th'[c] # th[c])
             => /\ procs' = procs
                /\ procIsRunning'
                /\ ~th'[c].err]_vars

\* the health-check loop has found the worker down, and by the time it
\* holds the exclusive lock and calls Start another operation has started
\* the worker
C22_Witness ==
    \E c \in Monitors :
       /\ At(c, "procStart")
       /\ muWriter = c
       /\ procIsRunning
       /\ Alive # {}

\* C23: a Start of the health-check loop that fails spawns nothing and
\* leads to the broadcast of the failure; that broadcast enqueues the
\* failure text, or hands it to the waiting fan-out, and takes the loop
\* through the unlock back to its select without another Start, with the
\* worker not running and manuallyStopped false as before, which is the
\* condition of the ticker case.
C23_FailureBroadcastNoRetry ==
    [][\A c \in Monitors :
          /\ (At(c, "procStart") /\ StartFails /\ th'[c] # th[c])
             => /\ procs' = procs
                /\ ~procIsRunning'
                /\ manuallyStopped' = manuallyStopped
                /\ Live(th'[c]) /\ CurOf(th'[c]).i = "bcastOutcome"
                /\ th'[c].err
                /\ muWriter' = c
          /\ (At(c, "bcastOutcome") /\ th[c].err /\ th'[c] # th[c])
             => /\ \/ broadcast' = Append(broadcast, "restart failed")
                   \/ /\ broadcasters > 0 /\ broadcast = << >>
                      /\ broadcast' = broadcast
                /\ Live(th'[c]) /\ CurOf(th'[c]).i = "select"
                /\ muWriter' = NoThread
                /\ procs' = procs
                /\ ~procIsRunning'
                /\ ~manuallyStopped']_vars

\* the failure text waits in the broadcast queue and the loop is back at its
\* select with the condition of the ticker case true
C23_Witness ==
    \E c \in Monitors :
       /\ At(c, "select")
       /\ \E i \in 1..Len(broadcast) : broadcast[i] = "restart failed"
       /\ ~procIsRunning
       /\ ~manuallyStopped
       /\ ~execPresent

\* C24: the save of Agent.UpdateConfig that fails is the first thing the
\* function does under the lock, and the step changes nothing but the
\* caller: the error is returned, the lock released, and the configuration
\* in memory and on disk, manuallyStopped, the worker handle and its
\* processes and the broadcast queue are as they were.
C24_FailedPersistChangesNothing ==
    [][\A c \in Threads :
          (/\ At(c, "save")
           /\ Cur(c).f = "UpdateConfig"
           /\ th'[c] # th[c]
           /\ th'[c].err)
          => /\ th[c].ip = CallOf(Prog(th[c].op), "UpdateConfig") + 1
             /\ ~(Live(th'[c]) /\ CurOf(th'[c]).f = "UpdateConfig")
             /\ muWriter' = NoThread
             /\ UNCHANGED <<cfgVars, procVars, manuallyStopped, broadcast,
                            agentIsRunning, stopRequested>>]_vars

\* a session sent a well-formed updateRPC command and has the response with
\* the error of the save; the configuration is the one loaded at the start
C24_Witness ==
    \E k \in Listeners : \E i \in 1..Len(wire[k]) :
        /\ i > 1
        /\ wire[k][i - 1] = Envelope("bot", "updateRPC", "ok")
        /\ wire[k][i] = Response(wire[k][i - 1], {"error"})
        /\ heap[mevConfig] = InitialConfig
        /\ disk = InitialConfig

\* C27: a call of main that finds isRunning true and is not Stop returns at
\* once and changes nothing; a failed worker start of Start leads to the
\* stop of the socket, after which Start returns the error with isRunning
\* false, the lock free and no loop spawned; and isRunning becomes true
\* only in the step of Start in which the worker start succeeded, with the
\* socket started before and one enrichment loop and one health-check loop
\* spawned in that step.
C27_StartAllOrNothing ==
    [][/\ (/\ th[Main].op = "idle"
           /\ used'["main"] # used["main"]
           /\ agentIsRunning
           /\ th'[Main].op # "Stop")
          => /\ th'[Main] = th[Main]
             /\ UNCHANGED <<muWriter, agentIsRunning, manuallyStopped,
                            chanVars, cfgVars, procVars, wsVars>>
       /\ \A c \in Threads :
             /\ (/\ At(c, "procStart") /\ Cur(c).f = "Start"
                 /\ StartFails /\ th'[c] # th[c])
                => /\ Live(th'[c]) /\ CurOf(th'[c]).i = "wsStop"
                   /\ th'[c].err
                   /\ ~agentIsRunning'
                   /\ \A b \in Background : th'[b] = th[b]
             /\ (/\ At(c, "wsStop") /\ Cur(c).f = "Start"
                 /\ th'[c] # th[c])
                => /\ ~serverUp'
                   /\ th'[c].op = "idle" /\ th'[c].err
                   /\ muWriter' = NoThread
                   /\ ~agentIsRunning'
                   /\ ~procIsRunning'
                   /\ \A b \in Background : th'[b] = th[b]
       /\ (agentIsRunning' /\ ~agentIsRunning)
          => \E c \in Threads :
                /\ At(c, "procStart") /\ Cur(c).f = "Start"
                /\ ~StartFails
                /\ serverUp /\ serverUp'
                /\ procIsRunning'
                /\ th'[c].op = "idle" /\ ~th'[c].err
                /\ Cardinality(Unborn(th', Trackers))
                      = Cardinality(Unborn(th, Trackers)) - 1
                /\ Cardinality(Unborn(th', Monitors))
                      = Cardinality(Unborn(th, Monitors)) - 1]_vars

\* Start has returned the error of the worker: the socket was started and
\* is stopped, isRunning is false and no loop was spawned
C27_Witness ==
    /\ th[Main].op = "idle"
    /\ th[Main].err
    /\ used["main"] > 0
    /\ broadcasters > 0
    /\ ~serverUp
    /\ ~agentIsRunning
    /\ \A b \in Background : th[b].op = "unborn"

\* C29: after every step the clients are the connections that were
\* registered and not closed since (a connection whose peer went away stays
\* until a read or a write fails on it); a connection joins them only by a
\* handshake with an accepted token and an upgrade, leaves them only when
\* its read fails or a fan-out cannot write to it, and once it has left it
\* never joins again and nothing more appears in its transcript.
C29_ClientsAreLiveSessions ==
    [][\A k \in Connections :
          /\ k \in clients' <=> conns'[k] \in {"open", "broken"}
          /\ (k \notin clients /\ k \in clients')
             => /\ conns[k] = "none"
                /\ k \in Listeners =>
                      \E tok \in {"secret", "wrong"} :
                         /\ Authorized(tok)
                         /\ wire'[k] = <<Hello(tok, TRUE), Welcome>>
          /\ (k \in clients /\ k \notin clients')
             => /\ conns'[k] = "closed"
                /\ \/ th[k].op = "idle" /\ th'[k].op = "done"
                   \/ /\ ~WriteOk(k)
                      /\ Len(broadcast') < Len(broadcast)
          /\ (k \notin clients /\ conns[k] # "none")
             => /\ k \notin clients'
                /\ conns'[k] = conns[k]
                /\ k \in Listeners => wire'[k] = wire[k]]_vars

\* one connection has left the clients by a failed read after its last
\* command was answered, the other was turned away, and a message waits in
\* the broadcast queue with no client left
C29_Witness ==
    \E k \in Listeners : \E j \in Listeners \ {k} :
        /\ conns[k] = "closed"
        /\ th[k].op = "done"
        /\ Len(wire[k]) > 2
        /\ IsResponse(wire[k][Len(wire[k])])
        /\ conns[j] \in {"unauthorized", "refused"}
        /\ clients = {}
        /\ broadcast # << >>

\* the worker handle's process is alive and was sent no termination signal
WorkerUp ==
    /\ procIsRunning
    /\ cmd > 0
    /\ procs[cmd].st = "alive"
    /\ ~procs[cmd].sig

\* the last RestartMEVBot of caller c returned nil
Restarted(c) == used["call"] > 0 /\ th[c].op = "idle" /\ ~th[c].err

\* a step in which caller c returns from RestartMEVBot
RestartReturns(c) ==
    /\ Live(th[c])
    /\ th[c].op = "RestartMEVBot"
    /\ th'[c].op = "idle"

BroadcastsLocked(c) ==
    /\ muWriter = c
    /\ Running(c)
    /\ Cur(c).i \in {"bcast", "bcastOutcome"}

\* C28: no goroutine waits for ever among Agent.mu, the worker handle's
\* mutex, ws.mu, the broadcast channel and statusChecks while it holds
\* Agent.mu: an operation or a health-check tick that broadcasts under the
\* exclusive lock completes and releases the lock, and Agent.mu is free
\* again and again, when the fan-out and the goroutines are scheduled
C28_LockIsReleased ==
    /\ (\E c \in Threads : BroadcastsLocked(c)) ~> muWriter = NoThread
    /\ []<>(muWriter = NoThread)

\* the health-check loop restarted the worker and, holding the exclusive
\* lock, waits at its send because the broadcast channel is full
C28_Witness ==
    /\ \E m \in Monitors : BroadcastsLocked(m) /\ Cur(m).i = "bcastOutcome"
    /\ Len(broadcast) = BroadcastCap
    /\ broadcasters > 0
====
